---- MODULE Spec2Model ----
(***************************************************************************)
(* Model of bunny-ds (src/src/core.py): a client of the Bunny.net storage  *)
(* HTTP API (download_file, upload_file, delete_file), a credential loader *)
(* (load_credentials) and the temp-file mediated data frame round trip     *)
(* (write_tmp_df, read_tmp_df, write_bunny_df, read_bunny_df).             *)
(*                                                                         *)
(* Path strings are sequences of one-character strings, so that            *)
(* Path(..).suffix, str.lower, str.lstrip and os.path.dirname are computed *)
(* as Python computes them.  Every function of core.py is an operator that *)
(* maps the state it reads (local files, directories, remote store) and    *)
(* its arguments to the state it leaves and the exception it raises; one   *)
(* action per public function applies it.                                  *)
(***************************************************************************)
EXTENDS Integers, Sequences, FiniteSets, TLC

VARIABLES
    env,      \* os.environ: variable name -> value, NONE when unset
    dotenv,   \* the .env file: variable name -> value, NONE when not listed
    fs,       \* local regular files: path -> content
    dirs,     \* local directories that exist
    remote,   \* the storage zone: object path -> content
    ntmp,     \* number of temp names tempfile has handed out
    written,  \* history: remote path -> table last stored there by write_bunny_df
    frame,    \* the data frame the caller holds (df of the __main__ example)
    target,   \* the remote path the caller reads and writes data frames at
    last      \* the call that made the last step: arguments, exception, effects

vars == <<env, dotenv, fs, dirs, remote, ntmp, written, frame, target, last>>

(***************************************************************************)
(* Bounds of the model.                                                    *)
(***************************************************************************)
\* temp files one behaviour may allocate (tempfile.NamedTemporaryFile calls)
MaxTmp == 2
\* rows of the data frames handed to write_bunny_df
MaxRows == 1

(***************************************************************************)
(* Python values and strings.                                              *)
(***************************************************************************)
\* Python's None (an unset environment variable, a disabled variable name)
NONE == "<None>"

\* no exception was raised
OK == "ok"

UpperChars == <<"A","B","C","D","E","F","G","H","I","J","K","L","M",
                "N","O","P","Q","R","S","T","U","V","W","X","Y","Z">>

LowerChars == <<"a","b","c","d","e","f","g","h","i","j","k","l","m",
                "n","o","p","q","r","s","t","u","v","w","x","y","z">>

Digit == <<"0","1","2","3","4","5","6","7","8","9">>

\* str.lower() on one character
LowerChar(c) ==
    IF \E i \in 1..Len(UpperChars) : UpperChars[i] = c
    THEN LowerChars[CHOOSE i \in 1..Len(UpperChars) : UpperChars[i] = c]
    ELSE c

\* str.lower()
str_lower(s) == [i \in 1..Len(s) |-> LowerChar(s[i])]

\* str.lstrip(ch): every leading ch removed
RECURSIVE str_lstrip(_, _)
str_lstrip(s, ch) ==
    IF s # <<>> /\ Head(s) = ch THEN str_lstrip(Tail(s), ch) ELSE s

\* str.rstrip(ch): every trailing ch removed
RECURSIVE str_rstrip(_, _)
str_rstrip(s, ch) ==
    IF s # <<>> /\ s[Len(s)] = ch THEN str_rstrip(SubSeq(s, 1, Len(s) - 1), ch) ELSE s

\* str.rfind(ch), 1-based; 0 when ch does not occur
str_rfind(s, ch) ==
    IF \E i \in 1..Len(s) : s[i] = ch
    THEN CHOOSE i \in 1..Len(s) : s[i] = ch /\ \A j \in (i+1)..Len(s) : s[j] # ch
    ELSE 0

\* the components of a path as pathlib keeps them: split on "/", the empty
\* and "." components dropped
RECURSIVE path_parts(_)
path_parts(p) ==
    IF p = <<>> THEN <<>>
    ELSE LET i == IF \E k \in 1..Len(p) : p[k] = "/"
                  THEN CHOOSE k \in 1..Len(p) : p[k] = "/" /\ \A j \in 1..(k-1) : p[j] # "/"
                  ELSE Len(p) + 1
             first == SubSeq(p, 1, i - 1)
             rest == path_parts(SubSeq(p, i + 1, Len(p)))
         IN  IF first = <<>> \/ first = <<".">> THEN rest ELSE <<first>> \o rest

\* Path(p).name: the final component
path_name(p) ==
    LET parts == path_parts(p)
    IN  IF parts = <<>> THEN <<>> ELSE parts[Len(parts)]

\* Path(p).suffix: from the last dot of the name, unless that dot is the
\* first or the last character of the name
path_suffix(p) ==
    LET name == path_name(p)
        i == str_rfind(name, ".")
    IN  IF 1 < i /\ i < Len(name) THEN SubSeq(name, i, Len(name)) ELSE <<>>

\* os.path.dirname(p)
os_path_dirname(p) ==
    LET i == str_rfind(p, "/")
        head == SubSeq(p, 1, i)
    IN  IF head # <<>> /\ \E k \in 1..Len(head) : head[k] # "/"
        THEN str_rstrip(head, "/")
        ELSE head

\* the directories os.makedirs(d) makes sure exist: d and its ancestors
makedirs_chain(d) ==
    { SubSeq(d, 1, k) : k \in { j \in 1..Len(d) : j = Len(d) \/ d[j + 1] = "/" } }
        \ { <<>> }

(***************************************************************************)
(* load_credentials.                                                       *)
(***************************************************************************)
\* a value Python treats as false in "if not x": None or the empty string
falsy(v) == v = NONE \/ v = ""

\* load_dotenv(): the variables of the .env file are added to os.environ;
\* a variable os.environ already holds is not overridden
load_dotenv(envv, dotenvv) ==
    [n \in DOMAIN envv |-> IF envv[n] # NONE THEN envv[n] ELSE dotenvv[n]]

\* os.getenv(name): the value, None for a variable that is not set
os_getenv(envv, name) == IF name \in DOMAIN envv THEN envv[name] ELSE NONE

\* mutant: the password check raises when either password is missing
load_credentials_either(envv, dotenvv, zone_name, password_read, password_write) ==
    LET e == load_dotenv(envv, dotenvv)
        zone == os_getenv(e, zone_name)
        p_read == IF ~falsy(password_read) THEN os_getenv(e, password_read) ELSE NONE
        p_write == IF ~falsy(password_write) THEN os_getenv(e, password_write) ELSE NONE
        none == [zone_name |-> NONE, password_read |-> NONE, password_write |-> NONE]
    IN  IF falsy(zone) THEN [exc |-> "ValueError", env |-> e, result |-> none]
        ELSE IF falsy(p_read) \/ falsy(p_write)
        THEN [exc |-> "KeyError", env |-> e, result |-> none]
        ELSE [exc |-> OK, env |-> e,
              result |-> [zone_name |-> zone, password_read |-> p_read,
                          password_write |-> p_write]]

load_credentials(envv, dotenvv, zone_name, password_read, password_write) ==
    LET e == load_dotenv(envv, dotenvv)
        zone == os_getenv(e, zone_name)
        p_read == IF ~falsy(password_read) THEN os_getenv(e, password_read) ELSE NONE
        p_write == IF ~falsy(password_write) THEN os_getenv(e, password_write) ELSE NONE
        none == [zone_name |-> NONE, password_read |-> NONE, password_write |-> NONE]
    IN  IF falsy(zone) THEN [exc |-> "ValueError", env |-> e, result |-> none]
        ELSE IF falsy(p_read) /\ falsy(p_write)
        THEN [exc |-> "KeyError", env |-> e, result |-> none]
        ELSE [exc |-> OK, env |-> e,
              result |-> [zone_name |-> zone, password_read |-> p_read,
                          password_write |-> p_write]]

(***************************************************************************)
(* File contents, the local file system and the storage server.            *)
(***************************************************************************)
\* a file's content: the container format its bytes are in ("text" for
\* plain text) and its lines of fields
Content(kind, cells) == [kind |-> kind, cells |-> cells]

EmptyFile == Content("text", <<>>)

\* the body the server sends with an error status
ErrorBody == Content("text", << <<"error">> >>)

\* function f without the key k
Without(f, k) == [x \in DOMAIN f \ {k} |-> f[x]]

\* function f with k mapped to v
With(f, k, v) == [x \in DOMAIN f \cup {k} |-> IF x = k THEN v ELSE f[x]]

\* os.path.isfile(p)
os_path_isfile(fsv, p) == p \in DOMAIN fsv

\* the server could not be reached: requests raises ConnectionError
ConnError == [conn |-> FALSE, status |-> 0, stream |-> FALSE]

\* the server answered with this status and the whole body arrived
Answer(status) == [conn |-> TRUE, status |-> status, stream |-> TRUE]

\* the server answered 200 and the connection broke while the body streamed
Broken == [conn |-> TRUE, status |-> 200, stream |-> FALSE]

\* the URL f"https://{base_url}/{storage_zone}/{path}"
Url(region, storage_zone, path) ==
    [region |-> region, zone |-> storage_zone, path |-> path]

Request(verb, url, key) == [verb |-> verb, url |-> url, key |-> key]

\* Response.raise_for_status(): HTTPError for a 4xx or 5xx status
raises_for_status(resp) == 400 <= resp.status /\ resp.status < 600

\* the answers the storage server can give to a GET of path: 200 only for an
\* object it holds, 404 only for one it does not
get_possible(remotev, path, resp) ==
    resp.conn =>
        /\ resp.status = 200 => path \in DOMAIN remotev
        /\ resp.status = 404 => path \notin DOMAIN remotev

\* the body of the answer to a GET
get_body(remotev, path, resp) ==
    IF resp.status = 200 THEN remotev[path]
    ELSE IF raises_for_status(resp) THEN ErrorBody
    ELSE EmptyFile

\* the store after a PUT of content at path: a 2xx answer means it is stored
put_effect(remotev, path, content, resp) ==
    IF resp.conn /\ resp.status \in 200..299 THEN With(remotev, path, content)
    ELSE remotev

\* the answers the server can give to a DELETE, as for GET
delete_possible(remotev, path, resp) ==
    resp.conn =>
        /\ resp.status = 200 => path \in DOMAIN remotev
        /\ resp.status = 404 => path \notin DOMAIN remotev

\* the store after a DELETE
delete_effect(remotev, path, resp) ==
    IF resp.conn /\ resp.status = 200 THEN Without(remotev, path) ELSE remotev

(***************************************************************************)
(* Object transfer: download_file, upload_file, delete_file.               *)
(***************************************************************************)
\* os.makedirs(d, exist_ok=True): the exception it raises, OK when none.
\* The empty path is no directory; a regular file is in the way
makedirs_exc(fsv, d) ==
    IF d = <<>> THEN "FileNotFoundError"
    ELSE IF \E a \in makedirs_chain(d) : a \in DOMAIN fsv THEN "FileExistsError"
    ELSE OK

\* open(p, "wb"): the exception it raises, OK when none
open_wb_exc(dirsv, p) ==
    IF p = <<>> THEN "FileNotFoundError"
    ELSE IF p \in dirsv THEN "IsADirectoryError"
    ELSE IF os_path_dirname(p) # <<>> /\ os_path_dirname(p) \notin dirsv
    THEN "FileNotFoundError"
    ELSE OK

download_file(fsv, dirsv, remotev, remote_file_path, local_destination_path, storage_zone, password_read, resp) ==
    LET url == Url("", storage_zone, remote_file_path)
        reqs == << Request("GET", url, password_read) >>
        dir == os_path_dirname(local_destination_path)
        made == dirsv \cup makedirs_chain(dir)
        out(e, f, d) == [exc |-> e, fs |-> f, dirs |-> d, reqs |-> reqs]
    IN  \* response = requests.get(url, headers=headers, stream=True)
        IF ~resp.conn THEN out("ConnectionError", fsv, dirsv)
        \* response.raise_for_status()
        ELSE IF raises_for_status(resp) THEN out("HTTPError", fsv, dirsv)
        \* os.makedirs(os.path.dirname(local_destination_path), exist_ok=True)
        ELSE IF makedirs_exc(fsv, dir) # OK THEN out(makedirs_exc(fsv, dir), fsv, dirsv)
        \* with open(local_destination_path, "wb") as f
        ELSE IF open_wb_exc(made, local_destination_path) # OK
        THEN out(open_wb_exc(made, local_destination_path), fsv, made)
        \* for chunk in response.iter_content(chunk_size=8192): f.write(chunk)
        ELSE IF ~resp.stream
        THEN out("ChunkedEncodingError", With(fsv, local_destination_path, EmptyFile), made)
        ELSE out(OK, With(fsv, local_destination_path,
                          get_body(remotev, remote_file_path, resp)), made)

\* the path of the URL upload_file builds
upload_path(local_file_path, remote_file_path) ==
    IF remote_file_path # <<>> THEN remote_file_path ELSE local_file_path

\* mutant: a failed PUT is attempted a second time
upload_file_retry(fsv, remotev, local_file_path, remote_file_path, storage_zone, password_write, region, resp) ==
    LET path == upload_path(local_file_path, remote_file_path)
        req == Request("PUT", Url(region, storage_zone, path), password_write)
        stored == put_effect(remotev, path, fsv[local_file_path], resp)
    IN  IF ~os_path_isfile(fsv, local_file_path)
        THEN [exc |-> "FileNotFoundError", remote |-> remotev, reqs |-> <<>>]
        ELSE IF ~resp.conn
        THEN [exc |-> "ConnectionError", remote |-> remotev, reqs |-> <<req, req>>]
        ELSE IF raises_for_status(resp)
        THEN [exc |-> "HTTPError", remote |-> stored, reqs |-> <<req, req>>]
        ELSE [exc |-> OK, remote |-> stored, reqs |-> <<req>>]

upload_file(fsv, remotev, local_file_path, remote_file_path, storage_zone, password_write, region, resp) ==
    LET path == upload_path(local_file_path, remote_file_path)
        req == Request("PUT", Url(region, storage_zone, path), password_write)
        stored == put_effect(remotev, path, fsv[local_file_path], resp)
    IN  \* if not os.path.isfile(local_file_path): raise FileNotFoundError
        IF ~os_path_isfile(fsv, local_file_path)
        THEN [exc |-> "FileNotFoundError", remote |-> remotev, reqs |-> <<>>]
        \* response = requests.put(storage_url, headers=headers, data=file_data)
        ELSE IF ~resp.conn
        THEN [exc |-> "ConnectionError", remote |-> remotev, reqs |-> <<req>>]
        \* response.raise_for_status()
        ELSE IF raises_for_status(resp)
        THEN [exc |-> "HTTPError", remote |-> stored, reqs |-> <<req>>]
        ELSE [exc |-> OK, remote |-> stored, reqs |-> <<req>>]

\* what delete_file prints
delete_message(resp, print_status) ==
    IF ~print_status THEN "nothing"
    ELSE IF resp.status = 200 THEN "deleted successfully"
    ELSE IF resp.status = 404 THEN "not found, no deletion"
    ELSE "response text and HTTP code"

delete_file(remotev, remote_file_path, storage_zone, password_write, print_status, resp) ==
    LET req == Request("DELETE", Url("", storage_zone, remote_file_path), password_write)
    IN  \* response = requests.delete(url, headers=headers)
        IF ~resp.conn
        THEN [exc |-> "ConnectionError", remote |-> remotev, reqs |-> <<req>>,
              printed |-> "nothing"]
        \* the status is only printed, and only if print_status
        ELSE [exc |-> OK, remote |-> delete_effect(remotev, remote_file_path, resp),
              reqs |-> <<req>>, printed |-> delete_message(resp, print_status)]

(***************************************************************************)
(* Data frames and the pandas encoders and decoders core.py dispatches to. *)
(***************************************************************************)
\* Extensions for pandas data frames
DataFrameExt ==
    { <<"c","s","v">>, <<"x","l","s","x">>, <<"p","a","r","q","u","e","t">>,
      <<"o","d","s">>, <<"s","t","a","t","a">>, <<"h","d","f">>, <<"f">>,
      <<"f","e","a","t","h","e","r">>, <<"p","k","l">>, <<"p","i","c","k","l","e">> }

\* a data frame with the default RangeIndex: column names and rows of integers
DataFrame(columns, rows) == [columns |-> columns, rows |-> rows]

\* the names pandas gives to header fields that are empty
Unnamed == <<"Unnamed: 0", "Unnamed: 1", "Unnamed: 2", "Unnamed: 3">>

IsDigit(c) == \E i \in 1..Len(Digit) : Digit[i] = c

\* str(n) of a one-digit integer
IntToStr(n) == Digit[n + 1]

\* int(s) of a one-digit string
StrToInt(s) == (CHOOSE i \in 1..Len(Digit) : Digit[i] = s) - 1

\* the header and rows of df without its index
plain_cells(df) ==
    <<df.columns>> \o
    [k \in 1..Len(df.rows) |-> [j \in 1..Len(df.rows[k]) |-> IntToStr(df.rows[k][j])]]

\* the header and rows of df with its index as the first column, headed name
indexed_cells(df, name) ==
    << <<name>> \o df.columns >> \o
    [k \in 1..Len(df.rows) |->
        <<IntToStr(k - 1)>> \o [j \in 1..Len(df.rows[k]) |-> IntToStr(df.rows[k][j])]]

\* the cells DataFrame.to_csv and to_excel write: index=True unless overridden
sheet_cells(df, kwargs) ==
    IF "index=False" \in kwargs THEN plain_cells(df) ELSE indexed_cells(df, "")

\* the cells of a text or spreadsheet file read back with the first line as
\* header: an empty header field is named Unnamed: j, a column of digits is
\* read as integers, any other column as strings
parse_sheet(cells) ==
    LET header == cells[1]
        body == Tail(cells)
        numeric(j) == \A k \in 1..Len(body) : IsDigit(body[k][j])
    IN  DataFrame([j \in 1..Len(header) |-> IF header[j] = "" THEN Unnamed[j] ELSE header[j]],
                  [k \in 1..Len(body) |-> [j \in 1..Len(header) |->
                       IF numeric(j) THEN StrToInt(body[k][j]) ELSE body[k][j]]])

\* the frame a typed binary file (stata, hdf, parquet, feather, pickle) holds
parse_frame(cells) ==
    DataFrame(cells[1],
              [k \in 1..(Len(cells) - 1) |->
                   [j \in 1..Len(cells[k + 1]) |-> StrToInt(cells[k + 1][j])]])

\* the if/elif chain of write_tmp_df: the exception the encoder raises and the
\* content it leaves in the file
encode_df(df, format, kwargs) ==
    LET done(c) == [exc |-> OK, content |-> c]
    IN  IF format = <<"c","s","v">> THEN done(Content("text", sheet_cells(df, kwargs)))
        ELSE IF format \in { <<"x","l","s">>, <<"x","l","s","x">>, <<"x","l","s","m">> }
        THEN done(Content("excel", sheet_cells(df, kwargs)))
        ELSE IF format = <<"o","d","s">> THEN done(Content("ods", sheet_cells(df, kwargs)))
        \* to_stata: write_index=True, the index column is named "index"
        ELSE IF format = <<"s","t","a","t","a">>
        THEN done(Content("stata", indexed_cells(df, "index")))
        \* to_hdf: key is a required argument
        ELSE IF format = <<"h","d","f">>
        THEN IF "key" \in kwargs THEN done(Content("hdf", plain_cells(df)))
             ELSE [exc |-> "TypeError", content |-> EmptyFile]
        ELSE IF format = <<"p","a","r","q","u","e","t">>
        THEN done(Content("parquet", plain_cells(df)))
        ELSE IF format \in { <<"f">>, <<"f","e","a","t","h","e","r">> }
        THEN done(Content("feather", plain_cells(df)))
        ELSE IF format \in { <<"p","k","l">>, <<"p","i","c","k","l","e">> }
        THEN done(Content("pickle", plain_cells(df)))
        ELSE [exc |-> "ValueError", content |-> EmptyFile]

\* the if/elif chain of read_tmp_df: the exception the decoder raises on this
\* content and the frame it returns
decode_df(content, format) ==
    LET NoFrame == DataFrame(<<>>, <<>>)
        fail(e) == [exc |-> e, df |-> NoFrame]
        done(d) == [exc |-> OK, df |-> d]
        typed(kind, e) == IF content.kind = kind THEN done(parse_frame(content.cells))
                          ELSE fail(e)
    IN  IF format = <<"c","s","v">>
        THEN IF content.kind # "text" THEN fail("UnicodeDecodeError")
             ELSE IF content.cells = <<>> THEN fail("EmptyDataError")
             ELSE done(parse_sheet(content.cells))
        ELSE IF format \in { <<"x","l","s">>, <<"x","l","s","x">>, <<"x","l","s","m">> }
        THEN IF content.kind = "excel" THEN done(parse_sheet(content.cells))
             ELSE fail("ValueError")
        ELSE IF format = <<"o","d","s">>
        THEN IF content.kind = "ods" THEN done(parse_sheet(content.cells))
             ELSE fail("ValueError")
        ELSE IF format = <<"s","t","a","t","a">> THEN typed("stata", "ValueError")
        ELSE IF format = <<"h","d","f">> THEN typed("hdf", "OSError")
        ELSE IF format = <<"p","a","r","q","u","e","t">> THEN typed("parquet", "ArrowInvalid")
        ELSE IF format \in { <<"f">>, <<"f","e","a","t","h","e","r">> }
        THEN typed("feather", "ArrowInvalid")
        ELSE IF format \in { <<"p","k","l">>, <<"p","i","c","k","l","e">> }
        THEN typed("pickle", "UnpicklingError")
        ELSE fail("ValueError")

(***************************************************************************)
(* Temp file bridge: write_tmp_df, read_tmp_df, delete_local_file.         *)
(***************************************************************************)
\* tempfile's directory
TempDir == <<"/","t","m","p">>

\* the name tempfile.NamedTemporaryFile(suffix=suffix) picks: one no earlier
\* call was given
tmp_name(n, suffix) == TempDir \o <<"/","t","m","p", Digit[n + 1]>> \o suffix

\* the state write_tmp_df leaves once the encoder has run: the file that
\* NamedTemporaryFile(delete=False) created stays when the encoder raises
tmp_encoded(fsv, n, temp_path, enc) ==
    [exc |-> enc.exc, path |-> temp_path, ntmp |-> n + 1,
     fs |-> With(fsv, temp_path, enc.content)]

write_tmp_df(fsv, n, df, format, kwargs) ==
    tmp_encoded(fsv, n, tmp_name(n, <<".">> \o format), encode_df(df, format, kwargs))

\* the extensions read_tmp_df has a branch for
ReadFormats ==
    { <<"c","s","v">>, <<"x","l","s">>, <<"x","l","s","x">>, <<"x","l","s","m">>,
      <<"o","d","s">>, <<"s","t","a","t","a">>, <<"h","d","f">>,
      <<"p","a","r","q","u","e","t">>, <<"f">>, <<"f","e","a","t","h","e","r">>,
      <<"p","k","l">>, <<"p","i","c","k","l","e">> }

read_tmp_df(fsv, local_file_path) ==
    LET format == str_lstrip(str_lower(path_suffix(local_file_path)), ".")
    IN  IF format \notin ReadFormats
        THEN [exc |-> "ValueError", df |-> DataFrame(<<>>, <<>>)]
        ELSE IF local_file_path \notin DOMAIN fsv
        THEN [exc |-> "FileNotFoundError", df |-> DataFrame(<<>>, <<>>)]
        ELSE decode_df(fsv[local_file_path], format)

\* if os.path.exists(local_file): os.remove(local_file)
delete_local_file(fsv, local_file) ==
    IF local_file \in DOMAIN fsv THEN Without(fsv, local_file) ELSE fsv

(***************************************************************************)
(* Data frame round trip: write_bunny_df, read_bunny_df.                   *)
(***************************************************************************)
\* no temp file was allocated
NoPath == <<>>

NoFrame == DataFrame(<<>>, <<>>)

\* the format write_bunny_df derives from the remote path
write_format(remote_file_path) ==
    str_lstrip(str_lower(path_suffix(remote_file_path)), ".")

\* the format read_bunny_df derives from the remote path
read_format(remote_file_path) == str_lstrip(path_suffix(remote_file_path), ".")

\* mutant: read_bunny_df validates nothing
read_format_ok_any(remote_file_path) == TRUE

\* read_bunny_df's validation: the extension is supported
read_format_ok(remote_file_path) == read_format(remote_file_path) \in DataFrameExt

\* write_bunny_df's validation: the extension is supported
write_format_ok(remote_file_path) == write_format(remote_file_path) \in DataFrameExt

\* mutant: the temp file is removed only when nothing was raised
read_cleanup_on_success(fsv, local_file_path, exc) ==
    IF exc = OK /\ local_file_path \in DOMAIN fsv THEN Without(fsv, local_file_path) ELSE fsv

\* the finally block of read_bunny_df, whatever was raised before it
read_cleanup(fsv, local_file_path, exc) ==
    IF local_file_path \in DOMAIN fsv THEN Without(fsv, local_file_path) ELSE fsv

\* what a call of write_bunny_df leaves: the exception, the step that raised
\* it, the local files, the store, the requests issued, the temp file made
write_result(e, stage, f, nn, r, reqs, tmp, content) ==
    [exc |-> e, stage |-> stage, fs |-> f, ntmp |-> nn, remote |-> r, reqs |-> reqs,
     tmp |-> tmp, content |-> content]

\* write_bunny_df after upload_file has returned or raised (u)
write_uploaded(w, u) ==
    IF u.exc # OK
    THEN write_result(u.exc, "upload", w.fs, w.ntmp, u.remote, u.reqs, w.path, w.fs[w.path])
    \* delete_local_file(local_file_path)
    ELSE write_result(OK, "done", delete_local_file(w.fs, w.path), w.ntmp, u.remote, u.reqs,
                      w.path, w.fs[w.path])

\* write_bunny_df after write_tmp_df has returned or raised (w)
write_encoded(w, remotev, remote_file_path, storage_zone, password_write, region, kwargs, resp) ==
    IF w.exc # OK
    THEN write_result(w.exc, "encode", w.fs, w.ntmp, remotev, <<>>, w.path, w.fs[w.path])
    \* upload_file(..., print_status=False, **kwargs): every parameter of
    \* upload_file is bound already, so any keyword in kwargs is a TypeError
    ELSE IF kwargs # {}
    THEN write_result("TypeError", "upload", w.fs, w.ntmp, remotev, <<>>, w.path, w.fs[w.path])
    ELSE write_uploaded(w, upload_file(w.fs, remotev, w.path, remote_file_path, storage_zone,
                                       password_write, region, resp))

write_bunny_df(fsv, n, remotev, df, remote_file_path, storage_zone, password_write, region, kwargs, resp) ==
    \* if format not in get_args(DataFrameExt): raise ValueError
    IF ~write_format_ok(remote_file_path)
    THEN write_result("ValueError", "validate", fsv, n, remotev, <<>>, NoPath, EmptyFile)
    \* local_file_path = write_tmp_df(df, format)
    ELSE write_encoded(write_tmp_df(fsv, n, df, write_format(remote_file_path), {}), remotev,
                       remote_file_path, storage_zone, password_write, region, kwargs, resp)

\* what a call of read_bunny_df leaves: the exception the caller sees, the
\* step that raised it, the exceptions download_file and read_tmp_df raised
read_result(e, stage, f, dd, nn, reqs, tmp, df, de, pe) ==
    [exc |-> e, stage |-> stage, fs |-> f, dirs |-> dd, ntmp |-> nn, reqs |-> reqs,
     tmp |-> tmp, df |-> df, download_exc |-> de, parse_exc |-> pe]

\* read_bunny_df after read_tmp_df has returned or raised (r)
read_parsed(d, r, n, local_file_path) ==
    IF r.exc # OK
    THEN read_result(r.exc, "parse", read_cleanup(d.fs, local_file_path, r.exc), d.dirs,
                     n + 1, d.reqs, local_file_path, NoFrame, OK, r.exc)
    \* return df
    ELSE read_result(OK, "done", read_cleanup(d.fs, local_file_path, OK), d.dirs,
                     n + 1, d.reqs, local_file_path, r.df, OK, OK)

\* read_bunny_df after download_file has returned or raised (d)
read_downloaded(d, n, local_file_path) ==
    IF d.exc # OK
    THEN read_result(d.exc, "download", read_cleanup(d.fs, local_file_path, d.exc), d.dirs,
                     n + 1, d.reqs, local_file_path, NoFrame, d.exc, NONE)
    \* df = read_tmp_df(local_file_path)
    ELSE read_parsed(d, read_tmp_df(d.fs, local_file_path), n, local_file_path)

\* read_bunny_df with its temp file allocated at local_file_path
read_allocated(fsv, dirsv, n, remotev, remote_file_path, storage_zone, password_read, resp, local_file_path) ==
    read_downloaded(download_file(With(fsv, local_file_path, EmptyFile), dirsv, remotev,
                                  remote_file_path, local_file_path, storage_zone,
                                  password_read, resp),
                    n, local_file_path)

read_bunny_df(fsv, dirsv, n, remotev, remote_file_path, storage_zone, password_read, resp) ==
    \* if format_clean not in get_args(DataFrameExt): raise ValueError
    IF ~read_format_ok(remote_file_path)
    THEN read_result("ValueError", "validate", fsv, dirsv, n, <<>>, NoPath, NoFrame, NONE, NONE)
    \* tmp = tempfile.NamedTemporaryFile(delete=False, suffix=format)
    ELSE read_allocated(fsv, dirsv, n, remotev, remote_file_path, storage_zone, password_read,
                        resp, tmp_name(n, path_suffix(remote_file_path)))

(***************************************************************************)
(* Inputs the actions draw from.                                           *)
(***************************************************************************)
EnvNames == {"BUNNY_STORAGE_ZONE", "BUNNY_PASS_READ", "BUNNY_PASS_WRITE"}

\* a variable is unset, set to the empty string, or set
EnvValues == {NONE, "", "value"}

\* the name of a password variable, None or "" to disable it
PasswordNames == EnvNames \cup {NONE, ""}

StorageZone == "my-zone"

PasswordRead == "read-key"

PasswordWrite == "write-key"

Hello == Content("text", << <<"hello">> >>)

Old == Content("text", << <<"old">> >>)

\* local paths of the direct transfers: a bare file name, a file in a
\* directory that does not exist yet, a file in the temp directory
BareName == <<"o",".","t","x","t">>

InSubdir == <<"d","l","/","o",".","t","x","t">>

InTemp == TempDir \o <<"/","i",".","t","x","t">>

LocalPaths == {BareName, InSubdir, InTemp}

SampleText == <<"s",".","t","x","t">>

\* remote paths of data frames: supported extensions in lower and upper
\* case, an unsupported extension, no extension
TestCsv == <<"t",".","c","s","v">>

UpperCsv == <<"d",".","C","S","V">>

TestPkl == <<"t",".","p","k","l">>

TestHdf == <<"t",".","h","d","f">>

NoExt == <<"d","a","t","a">>

FramePaths == {TestCsv, UpperCsv, TestPkl, TestHdf, SampleText, NoExt}

\* data frames with columns A, B, C and up to MaxRows rows
RECURSIVE RowsOf(_)
RowsOf(n) == IF n = 0 THEN <<>> ELSE RowsOf(n - 1) \o << <<n, n + 1, n + 2>> >>

Frames == { DataFrame(<<"A", "B", "C">>, RowsOf(n)) : n \in 0..MaxRows }

GetAnswers == {Answer(200), Answer(304), Answer(404), Answer(500), Broken, ConnError}

PutAnswers == {Answer(201), Answer(401), Answer(500), ConnError}

DeleteAnswers == {Answer(200), Answer(404), Answer(401), Answer(500), ConnError}

EmptyMap == [x \in {} |-> x]

NoCall == [op |-> "none"]

(***************************************************************************)
(* Credentials: the environment and load_credentials.                      *)
(***************************************************************************)
InitCred ==
    /\ env \in [EnvNames -> EnvValues]
    /\ dotenv \in [EnvNames -> {NONE, "value"}]
    /\ fs = EmptyMap
    /\ dirs = {TempDir}
    /\ remote = EmptyMap
    /\ ntmp = 0
    /\ written = EmptyMap
    /\ frame = NoFrame
    /\ target = NoPath
    /\ last = NoCall

LoadCredentials ==
    \E zone_name \in EnvNames, password_read \in PasswordNames, password_write \in PasswordNames :
        LET r == load_credentials(env, dotenv, zone_name, password_read, password_write)
        IN  /\ env' = r.env
            /\ last' = [op |-> "load_credentials", zone_name |-> zone_name,
                        password_read |-> password_read, password_write |-> password_write,
                        exc |-> r.exc, result |-> r.result]
            /\ UNCHANGED <<dotenv, fs, dirs, remote, ntmp, written, frame, target>>

NextCred == LoadCredentials

SpecCred == InitCred /\ [][NextCred]_vars

(***************************************************************************)
(* Direct transfers: download_file, upload_file, delete_file.              *)
(***************************************************************************)
InitTransfer ==
    /\ env = [n \in EnvNames |-> "value"]
    /\ dotenv = [n \in EnvNames |-> NONE]
    /\ fs \in {EmptyMap, With(EmptyMap, InTemp, Hello), With(EmptyMap, BareName, Old)}
    /\ dirs = {TempDir}
    /\ remote \in {EmptyMap, With(EmptyMap, SampleText, Hello)}
    /\ ntmp = 0
    /\ written = EmptyMap
    /\ frame = NoFrame
    /\ target = NoPath
    /\ last = NoCall

DownloadFile ==
    \E remote_file_path \in {SampleText}, local_destination_path \in LocalPaths, resp \in GetAnswers :
        LET r == download_file(fs, dirs, remote, remote_file_path, local_destination_path,
                               StorageZone, PasswordRead, resp)
        IN  /\ get_possible(remote, remote_file_path, resp)
            /\ fs' = r.fs
            /\ dirs' = r.dirs
            /\ last' = [op |-> "download_file", remote_file_path |-> remote_file_path,
                        local_path |-> local_destination_path, resp |-> resp,
                        body |-> get_body(remote, remote_file_path, resp),
                        exc |-> r.exc, reqs |-> r.reqs]
            /\ UNCHANGED <<env, dotenv, remote, ntmp, written, frame, target>>

UploadFile ==
    \E local_file_path \in LocalPaths, region \in {"", "uk"}, resp \in PutAnswers :
        LET r == upload_file(fs, remote, local_file_path, SampleText, StorageZone,
                             PasswordWrite, region, resp)
        IN  /\ remote' = r.remote
            /\ last' = [op |-> "upload_file", remote_file_path |-> SampleText,
                        local_path |-> local_file_path, resp |-> resp,
                        exc |-> r.exc, reqs |-> r.reqs]
            /\ UNCHANGED <<env, dotenv, fs, dirs, ntmp, written, frame, target>>

DeleteFile ==
    \E remote_file_path \in {SampleText}, print_status \in BOOLEAN, resp \in DeleteAnswers :
        LET r == delete_file(remote, remote_file_path, StorageZone, PasswordWrite,
                             print_status, resp)
        IN  /\ delete_possible(remote, remote_file_path, resp)
            /\ remote' = r.remote
            /\ last' = [op |-> "delete_file", remote_file_path |-> remote_file_path,
                        print_status |-> print_status, resp |-> resp,
                        exc |-> r.exc, reqs |-> r.reqs, printed |-> r.printed]
            /\ UNCHANGED <<env, dotenv, fs, dirs, ntmp, written, frame, target>>

NextTransfer == DownloadFile \/ UploadFile \/ DeleteFile

SpecTransfer == InitTransfer /\ [][NextTransfer]_vars

(***************************************************************************)
(* Data frames: write_bunny_df, read_bunny_df.                             *)
(***************************************************************************)
InitDf ==
    /\ env = [n \in EnvNames |-> "value"]
    /\ dotenv = [n \in EnvNames |-> NONE]
    /\ fs = EmptyMap
    /\ dirs = {TempDir}
    /\ frame \in Frames
    /\ target \in FramePaths
    /\ remote \in {EmptyMap, With(EmptyMap, target, Hello)}
    /\ ntmp = 0
    /\ written = EmptyMap
    /\ last = NoCall

\* the step a call of write_bunny_df makes, r being what the call leaves
WriteBunnyDfStep(r) ==
    /\ r.ntmp <= MaxTmp
    /\ fs' = r.fs
    /\ ntmp' = r.ntmp
    /\ remote' = r.remote
    /\ written' = IF r.exc = OK THEN With(written, target, frame) ELSE written
    /\ last' = [op |-> "write_bunny_df", remote_file_path |-> target,
                exc |-> r.exc, stage |-> r.stage, reqs |-> r.reqs, tmp |-> r.tmp,
                content |-> r.content]
    /\ UNCHANGED <<env, dotenv, dirs, frame, target>>

WriteBunnyDf ==
    \E kwargs \in {{}, {"index=False"}}, resp \in PutAnswers :
        WriteBunnyDfStep(write_bunny_df(fs, ntmp, remote, frame, target, StorageZone,
                                        PasswordWrite, "", kwargs, resp))

\* the step a call of read_bunny_df makes, r being what the call leaves
ReadBunnyDfStep(r) ==
    /\ r.ntmp <= MaxTmp
    /\ fs' = r.fs
    /\ dirs' = r.dirs
    /\ ntmp' = r.ntmp
    /\ last' = [op |-> "read_bunny_df", remote_file_path |-> target,
                exc |-> r.exc, stage |-> r.stage, reqs |-> r.reqs,
                tmp |-> r.tmp, df |-> r.df, download_exc |-> r.download_exc,
                parse_exc |-> r.parse_exc]
    /\ UNCHANGED <<env, dotenv, remote, written, frame, target>>

ReadBunnyDf ==
    \E resp \in GetAnswers :
        /\ get_possible(remote, target, resp)
        /\ ReadBunnyDfStep(read_bunny_df(fs, dirs, ntmp, remote, target, StorageZone,
                                         PasswordRead, resp))

NextDf == WriteBunnyDf \/ ReadBunnyDf

SpecDf == InitDf /\ [][NextDf]_vars

(***************************************************************************)
(* Claims.                                                                 *)
(***************************************************************************)
IsSuccess(status) == status \in 200..299

\* C1: after every call of write_bunny_df whose remote path has a supported
\* extension, the temp file the call created no longer exists, whether the
\* call returned or raised (upload failure, unexpected argument, encoder
\* failure).
C1_WriteLeavesNoTempFile ==
    (last.op = "write_bunny_df" /\ write_format_ok(last.remote_file_path))
        => last.tmp \notin DOMAIN fs

\* C2: after every call of read_bunny_df that allocated a temp file, that
\* file no longer exists, on the successful return, on a failure of
\* download_file and on a failure of read_tmp_df; and the exception the
\* caller sees is the one the download or the parse raised.
C2_ReadRemovesTempFile ==
    (last.op = "read_bunny_df" /\ last.tmp # NoPath) =>
        /\ last.tmp \notin DOMAIN fs
        /\ last.stage \in {"done", "download", "parse"}
        /\ last.stage = "download" => (last.download_exc # OK /\ last.exc = last.download_exc)
        /\ last.stage = "parse" => (last.parse_exc # OK /\ last.exc = last.parse_exc)
        /\ last.stage = "done" => last.exc = OK

\* C2 witness: read_tmp_df raised on the downloaded file, the caller sees
\* that exception and the temp file is gone.
C2_ParseFailureCleaned ==
    /\ last.op = "read_bunny_df"
    /\ last.stage = "parse"
    /\ last.exc = "UnpicklingError"
    /\ last.tmp # NoPath
    /\ last.tmp \notin DOMAIN fs

\* C3: delete_file returns normally on status 200 and on status 404, and
\* raises an error on any other status, whatever print_status is.
C3_DeleteClassifiesStatus ==
    (last.op = "delete_file" /\ last.resp.conn) =>
        IF last.resp.status \in {200, 404} THEN last.exc = OK ELSE last.exc # OK

\* C4: a call of write_bunny_df or read_bunny_df with an extension outside
\* the supported set raises the unsupported-format ValueError, issues no HTTP
\* request, creates no temp file and changes neither the local files nor the
\* remote store.
C4_UnsupportedFailsFast ==
    [][ ( /\ last'.op \in {"write_bunny_df", "read_bunny_df"}
          /\ write_format(last'.remote_file_path) \notin DataFrameExt )
        => ( /\ last'.exc = "ValueError"
             /\ last'.stage = "validate"
             /\ last'.reqs = <<>>
             /\ last'.tmp = NoPath
             /\ fs' = fs
             /\ dirs' = dirs
             /\ ntmp' = ntmp
             /\ remote' = remote ) ]_vars

\* C4 witness: read_bunny_df was called on a .txt path and raised ValueError
\* with no request issued.
C4_TxtRejected ==
    /\ last.op = "read_bunny_df"
    /\ last.remote_file_path = SampleText
    /\ last.exc = "ValueError"
    /\ last.reqs = <<>>

\* C5: every remote path whose lower-cased extension is supported passes the
\* extension validation of write_bunny_df and of read_bunny_df alike.
C5_SamePathsAccepted ==
    ( /\ last.op \in {"write_bunny_df", "read_bunny_df"}
      /\ str_lstrip(str_lower(path_suffix(last.remote_file_path)), ".") \in DataFrameExt )
        => last.stage # "validate"

\* C6: upload_file on a local path that is not an existing file raises
\* FileNotFoundError and issues no HTTP request; on an existing file it
\* issues exactly one PUT, whatever the response.
C6_UploadSingleAttempt ==
    last.op = "upload_file" =>
        IF last.local_path \notin DOMAIN fs
        THEN last.exc = "FileNotFoundError" /\ last.reqs = <<>>
        ELSE Len(last.reqs) = 1 /\ last.reqs[1].verb = "PUT"

\* C6 witness: upload_file of an existing file was answered with an error
\* status, after one PUT.
C6_FailedUploadOnePut ==
    /\ last.op = "upload_file"
    /\ last.local_path \in DOMAIN fs
    /\ last.exc = "HTTPError"
    /\ Len(last.reqs) = 1

\* C7: download_file answered with a non-2xx status raises the transfer
\* error and leaves the local files and directories as they were.  Stated
\* for the destinations that have a directory component, where no parent
\* directory may be made and no file created or changed.
C7_NonSuccessLeavesDestination ==
    [][ ( /\ last'.op = "download_file"
          /\ last'.resp.conn
          /\ ~IsSuccess(last'.resp.status)
          /\ os_path_dirname(last'.local_path) # <<>> )
        => ( /\ last'.exc = "HTTPError"
             /\ fs' = fs
             /\ dirs' = dirs ) ]_vars

\* C8: download_file answered with a 2xx status whose body arrives returns
\* normally for every destination path, with the parent directories made and
\* the destination file holding exactly the response body.
C8_DownloadWritesBody ==
    ( /\ last.op = "download_file"
      /\ last.resp.conn
      /\ IsSuccess(last.resp.status)
      /\ last.resp.stream )
        => ( /\ last.exc = OK
             /\ last.local_path \in DOMAIN fs
             /\ fs[last.local_path] = last.body
             /\ os_path_dirname(last.local_path) # <<>>
                    => os_path_dirname(last.local_path) \in dirs )

\* C9: load_credentials raises a configuration error when the zone variable
\* is unset or empty, raises one when both password variables are unset,
\* empty or disabled, and otherwise returns a record with a non-empty
\* zone_name and at least one non-empty password.  The environment is
\* os.environ with the .env file loaded into it.
C9_CredentialsValidated ==
    last.op = "load_credentials" =>
        LET zone == env[last.zone_name]
            p_read == IF last.password_read \in EnvNames THEN env[last.password_read] ELSE NONE
            p_write == IF last.password_write \in EnvNames THEN env[last.password_write] ELSE NONE
            missing(v) == v = NONE \/ v = ""
        IN  IF missing(zone) THEN last.exc \in {"ValueError", "KeyError"}
            ELSE IF missing(p_read) /\ missing(p_write)
            THEN last.exc \in {"ValueError", "KeyError"}
            ELSE /\ last.exc = OK
                 /\ ~missing(last.result.zone_name)
                 /\ ~missing(last.result.password_read) \/ ~missing(last.result.password_write)

\* C9 witness: load_credentials returned a record with a zone and only the
\* write password.
C9_OnlyWritePassword ==
    /\ last.op = "load_credentials"
    /\ last.exc = OK
    /\ last.result.zone_name = "value"
    /\ last.result.password_read = NONE
    /\ last.result.password_write = "value"

\* C10: read_bunny_df of a path that write_bunny_df stored a frame at returns
\* a frame equal to the one written, in column names, row count and values;
\* and the object write_bunny_df stored is the content of its temp file.
C10_RoundTrip ==
    /\ (last.op = "write_bunny_df" /\ last.exc = OK)
           => remote[last.remote_file_path] = last.content
    /\ (last.op = "read_bunny_df" /\ last.exc = OK /\ last.remote_file_path \in DOMAIN written)
           => /\ last.df.columns = written[last.remote_file_path].columns
              /\ Len(last.df.rows) = Len(written[last.remote_file_path].rows)
              /\ last.df.rows = written[last.remote_file_path].rows

====
